---- MODULE Spec2Model ----
(***************************************************************************)
(* Model of command.ts's built-in CommandHandler module                    *)
(* (src/src/defaultModules/CommandHandler.ts) together with the built-in   *)
(* number converter (src/src/builtinModules/BuiltinCommandConverters.ts).  *)
(*                                                                         *)
(* A JavaScript string is a sequence of one-character strings, so that     *)
(* startsWith, slice, split, join and toLowerCase are computed the way the *)
(* code computes them.  Each dispatch (one call of onMessage or of         *)
(* interaction) is a task with its own locals; a task takes one step per   *)
(* pipeline stage, and the awaits of the code (prefix function, check,     *)
(* converter, slash handler) are steps of their own.                       *)
(***************************************************************************)
EXTENDS Integers, Sequences, FiniteSets, TLC

(***************************************************************************)
(* JavaScript strings                                                      *)
(***************************************************************************)
UpperChars == <<"A","B","C","D","E","F","G","H","I","J","K","L","M",
                "N","O","P","Q","R","S","T","U","V","W","X","Y","Z">>

LowerChars == <<"a","b","c","d","e","f","g","h","i","j","k","l","m",
                "n","o","p","q","r","s","t","u","v","w","x","y","z">>

DigitChars == <<"0","1","2","3","4","5","6","7","8","9">>

\* The position of character c in the sequence s, 0 when c is not in s.
IndexOf(s, c) ==
    IF \E k \in 1..Len(s) : s[k] = c
    THEN CHOOSE k \in 1..Len(s) : s[k] = c
    ELSE 0

LowerChar(c) ==
    IF IndexOf(UpperChars, c) = 0 THEN c ELSE LowerChars[IndexOf(UpperChars, c)]

\* String.prototype.toLowerCase
ToLowerCase(s) == [k \in 1..Len(s) |-> LowerChar(s[k])]

\* String.prototype.startsWith
StartsWith(s, p) == Len(p) <= Len(s) /\ SubSeq(s, 1, Len(p)) = p

\* String.prototype.slice(n) for 0 <= n
Slice(s, n) == SubSeq(s, n + 1, Len(s))

RECURSIVE SplitAcc(_, _, _)
SplitAcc(s, cur, acc) ==
    IF s = <<>> THEN Append(acc, cur)
    ELSE IF Head(s) = " " THEN SplitAcc(Tail(s), <<>>, Append(acc, cur))
    ELSE SplitAcc(Tail(s), Append(cur, Head(s)), acc)

\* String.prototype.split(' '): the pieces between single spaces, empty
\* pieces included; the empty string splits into one empty piece.
Split(s) == SplitAcc(s, <<>>, <<>>)

RECURSIVE Join(_)
\* Array.prototype.join(' ') of an array of strings
Join(list) ==
    IF list = <<>> THEN <<>>
    ELSE IF Len(list) = 1 THEN list[1]
    ELSE list[1] \o <<" ">> \o Join(Tail(list))

(***************************************************************************)
(* JavaScript values: t is the type, n the number (or the truth value of a *)
(* boolean, or the identity of an object), s the string.                   *)
(***************************************************************************)
Undefined == [t |-> "undefined", n |-> 0, s |-> <<>>]

Null == [t |-> "null", n |-> 0, s |-> <<>>]

Num(k) == [t |-> "number", n |-> k, s |-> <<>>]

Str(x) == [t |-> "string", n |-> 0, s |-> x]

Bool(b) == [t |-> "boolean", n |-> IF b THEN 1 ELSE 0, s |-> <<>>]

Obj(k) == [t |-> "object", n |-> k, s |-> <<>>]

\* !x of JavaScript
Falsy(x) ==
    \/ x.t \in {"undefined", "null"}
    \/ x.t = "number" /\ x.n = 0
    \/ x.t = "string" /\ x.s = <<>>
    \/ x.t = "boolean" /\ x.n = 0

\* Array.prototype.shift: the first element, undefined on an empty array
ShiftValue(a) == IF a = <<>> THEN Undefined ELSE Str(Head(a))

ShiftRest(a) == IF a = <<>> THEN <<>> ELSE Tail(a)

\* a join that renders undefined and null as String() would
JoinPieceText(x) ==
    IF x.t = "undefined" THEN <<"u","n","d","e","f","i","n","e","d">>
    ELSE IF x.t = "null" THEN <<"n","u","l","l">> ELSE x.s

\* join's rendering of one element: undefined and null give the empty string
JoinPiece(x) == IF x.t \in {"undefined", "null"} THEN <<>> ELSE x.s

\* a[i] = x on an array a, i counted from 0: a shorter array is padded
\* with holes (which read as undefined)
ArraySet(a, i, x) ==
    [k \in 1..(IF i + 1 > Len(a) THEN i + 1 ELSE Len(a)) |->
        IF k = i + 1 THEN x
        ELSE IF k <= Len(a) THEN a[k] ELSE Undefined]

(***************************************************************************)
(* BuiltinCommandConverters.number                                         *)
(***************************************************************************)
RECURSIVE DecimalValue(_)
DecimalValue(s) ==
    IF s = <<>> THEN 0
    ELSE 10 * DecimalValue(SubSeq(s, 1, Len(s) - 1))
         + (IndexOf(DigitChars, s[Len(s)]) - 1)

\* isNaN(Number(value)) for the strings of this model, which are made of
\* letters and digits and never mix the two in one token: a string of digits
\* (the empty string included, Number('') is 0) is a number, any other is NaN.
IsNaNNumber(value) == \E k \in 1..Len(value) : IndexOf(DigitChars, value[k]) = 0

number(value) == IF IsNaNNumber(value) THEN Undefined ELSE Num(DecimalValue(value))

\* The converter function is handed the raw token as its value: the
\* registration decorator that wires ArgumentConverter.convert to the
\* declared method is not part of the sources at hand.
ConverterArgument(token, m) == token

(***************************************************************************)
(* The registry: commands, argument converters, slash commands.  It is     *)
(* filled at load time and read only by the dispatchers.                   *)
(***************************************************************************)
Param(type, optional, rest) == [type |-> type, optional |-> optional, rest |-> rest]

commandList ==
    << [name |-> <<"p","i","n","g">>, aliases |-> << <<"p">> >>,
        ownerOnly |-> FALSE, clientPermissions |-> {}, checks |-> <<>>,
        args |-> << Param("String", TRUE, FALSE) >>, usesCtx |-> FALSE],
       [name |-> <<"a","d","d">>, aliases |-> <<>>,
        ownerOnly |-> FALSE, clientPermissions |-> {}, checks |-> <<>>,
        args |-> << Param("Number", FALSE, FALSE), Param("Number", FALSE, FALSE) >>,
        usesCtx |-> TRUE],
       [name |-> <<"s","a","y">>, aliases |-> << <<"E","c","h","o">> >>,
        ownerOnly |-> FALSE, clientPermissions |-> {}, checks |-> <<>>,
        args |-> << Param("String", FALSE, TRUE) >>, usesCtx |-> FALSE],
       [name |-> <<"t","e","l","l">>, aliases |-> <<>>,
        ownerOnly |-> FALSE, clientPermissions |-> {}, checks |-> << "c1" >>,
        args |-> << Param("String", FALSE, FALSE), Param("String", TRUE, TRUE) >>,
        usesCtx |-> TRUE],
       [name |-> <<"b","a","n">>, aliases |-> <<>>,
        ownerOnly |-> TRUE, clientPermissions |-> {"BAN_MEMBERS"},
        checks |-> << "c1", "c2" >>,
        args |-> << Param("Member", FALSE, FALSE), Param("Date", TRUE, FALSE) >>,
        usesCtx |-> FALSE] >>

\* The built-in String and Number converters and one converter registered
\* by the application (for the type Member); no converter for the type Date.
argConverterList ==
    << [type |-> "String", convert |-> "string"],
       [type |-> "Number", convert |-> "number"],
       [type |-> "Member", convert |-> "custom"] >>

slashCommandList ==
    << [name |-> "ping", ownerOnly |-> FALSE, clientPermissions |-> {}],
       [name |-> "ban", ownerOnly |-> TRUE, clientPermissions |-> {"BAN_MEMBERS"}] >>

\* this.client.owners
owners == {"owner"}

\* this.client.user.id
clientUserId == "self"

(***************************************************************************)
(* Array.prototype.find over the registry lists: the position of the first *)
(* element that satisfies the predicate, 0 when find returns undefined.    *)
(***************************************************************************)
FirstIndex(S) == IF S = {} THEN 0 ELSE CHOOSE k \in S : \A j \in S : k <= j

\* the predicate of commandList.find in onMessage
CommandMatches(x, command) ==
    \/ ToLowerCase(x.name) = ToLowerCase(command)
    \/ \E k \in 1..Len(x.aliases) : ToLowerCase(x.aliases[k]) = command

FindCommand(command) ==
    FirstIndex({k \in 1..Len(commandList) : CommandMatches(commandList[k], command)})

FindConverter(type) ==
    FirstIndex({k \in 1..Len(argConverterList) : argConverterList[k].type = type})

FindSlashCommand(name) ==
    FirstIndex({k \in 1..Len(slashCommandList) : slashCommandList[k].name = name})

\* Permissions.has: every required permission is among the held ones
Has(held, required) == required \subseteq held

(***************************************************************************)
(* Events delivered by the platform                                        *)
(***************************************************************************)
Bang == <<"!">>

Quest == <<"?">>

W_ping == <<"p","i","n","g">>

W_add == <<"a","d","d">>

W_say == <<"s","a","y">>

W_tell == <<"t","e","l","l">>

W_ban == <<"b","a","n">>

\* msg.content of the text events
MessageContents ==
    { <<>>, Bang, W_ping,
      Bang \o W_ping, Bang \o <<"P","I","N","G">>, Bang \o <<"p">>, Bang \o <<"P">>,
      Bang \o <<"p","o","n","g">>, Quest \o W_ping,
      Bang \o <<"e","c","h","o">>, Bang \o <<"E","c","h","o">>,
      Bang \o Join(<< W_ping, <<"x">> >>),
      Bang \o Join(<< W_add, <<"0">>, <<"3">> >>),
      Bang \o Join(<< W_add, <<"1","2">>, <<"7">> >>),
      Bang \o Join(<< W_add, <<"3">> >>),
      Bang \o Join(<< W_add, <<"x">>, <<"3">> >>),
      Bang \o W_say,
      Bang \o Join(<< W_say, <<"h","e","l","l","o">>, <<"w","o","r","l","d">> >>),
      Bang \o Join(<< W_say, <<>>, <<"h","i">> >>),
      Bang \o W_tell,
      Bang \o Join(<< W_tell, <<"a">> >>),
      Bang \o Join(<< W_tell, <<"a">>, <<"b">>, <<"c">> >>),
      Bang \o Join(<< W_tell, <<>>, <<"b">> >>),
      Bang \o W_ban,
      Bang \o Join(<< W_ban, <<"u">> >>),
      Bang \o Join(<< W_ban, <<"u">>, <<"d">> >>) }

\* msg.author: the bot itself, another bot, an owner, an ordinary user
Authors ==
    { [id |-> "self", bot |-> TRUE], [id |-> "bot2", bot |-> TRUE],
      [id |-> "owner", bot |-> FALSE], [id |-> "user", bot |-> FALSE] }

Permissions == {"BAN_MEMBERS"}

\* Where a text event happens: in a guild (msg.guild, msg.guild.me and
\* msg.member are set; me and member are the permissions the bot and the
\* author hold in msg.channel) or in a direct message (msg.guild and
\* msg.member are null).
Locations ==
    { [guild |-> TRUE, me |-> a, member |-> b] : a, b \in SUBSET Permissions }
    \cup { [guild |-> FALSE, me |-> {}, member |-> {}] }

Messages ==
    { [author |-> a, content |-> c, guild |-> l.guild, me |-> l.me, member |-> l.member] :
        a \in Authors, c \in MessageContents, l \in Locations }

NoMessage == [author |-> [id |-> "", bot |-> FALSE], content |-> <<>>,
              guild |-> FALSE, me |-> {}, member |-> {}]

G1 == <<"g","1">>

G2 == <<"g","2">>

\* i.guildId, with the permissions held in i.channel when i.guild is set
InteractionLocations ==
    { [guildId |-> Str(G1), me |-> a, member |-> b] : a, b \in SUBSET Permissions }
    \cup { [guildId |-> Str(G2), me |-> Permissions, member |-> Permissions],
           [guildId |-> Null, me |-> {}, member |-> {}] }

\* i.command is null when the application command is not in the cache
NoCommand == "null"

Interactions ==
    { [guildId |-> l.guildId, me |-> l.me, member |-> l.member,
       isCommand |-> b, command |-> n, user |-> u] :
        l \in InteractionLocations, b \in BOOLEAN,
        n \in {"ping", "ban", "pong", NoCommand}, u \in {"owner", "user"} }

NoInteraction == [guildId |-> Null, me |-> {}, member |-> {},
                  isCommand |-> FALSE, command |-> NoCommand, user |-> ""]

(***************************************************************************)
(* What the collaborators may answer                                       *)
(***************************************************************************)
\* results of a prefix function
PrefixResults == {Bang, Quest}

\* await check(msg): the predicate's verdict, or it raises
CheckOutcomes == {"true", "false", "throw"}

\* what the application's converter may return
CustomResults ==
    { Undefined, Null, Num(0), Str(<<>>), Bool(FALSE),
      Num(7), Str(<<"v">>), Bool(TRUE), Obj(1) }

\* the handler returns, raises before it returns, or (an async handler)
\* returns a promise that is rejected later
HandlerOutcomes == {"returns", "throws", "rejects"}

(***************************************************************************)
(* Errors given to client.emit                                             *)
(***************************************************************************)
OwnerOnlyCommand == "OwnerOnlyCommand"

MissingClientPermissions == "MissingClientPermissions"

MissingUserPermissions == "MissingUserPermissions"

CheckFailedError == "CheckFailedError"

OwnerOnlySlashCommand == "OwnerOnlySlashCommand"

MissingSlashClientPermissions == "MissingSlashClientPermissions"

MissingSlashUserPermissions == "MissingSlashUserPermissions"

ArgumentRequiredError == "Error: An argument is required but not provided."

NoResultError == "Error: Argument converter returned no result."

NoConverterError == "Error: No converter found for type"

\* the objects raised by a converter and by a handler
ConverterRaised == "raised by the converter"

HandlerRaised == "raised by the handler"

TypeError == "TypeError"

(***************************************************************************)
(* State                                                                   *)
(***************************************************************************)
VARIABLES
    commandOptions,   \* this.client.commandOptions
    task              \* the locals of each dispatch and its trace of calls

vars == <<commandOptions, task>>

\* Spec dispatches one event; the second dispatch exists for the
\* specifications of concurrent dispatch and is off otherwise.
TaskIds == {1, 2}

\* commandOptions.slashCommands.guild: unset, one guild id, a list of ids
GuildOptions ==
    { [kind |-> "undefined", s |-> <<>>, a |-> <<>>],
      [kind |-> "string", s |-> G1, a |-> <<>>],
      [kind |-> "array", s |-> <<>>, a |-> << G1 >>] }

\* commandOptions.prefix: a string, or a function of the message
PrefixOptions == { [fn |-> FALSE, s |-> Bang], [fn |-> TRUE, s |-> <<>>] }

IdleTask ==
    [pc |-> "idle", msg |-> NoMessage, interaction |-> NoInteraction,
     prefix |-> <<>>, args |-> <<>>, command |-> Undefined, cmd |-> 0,
     chk |-> 0, i |-> 0, v |-> Undefined, parsedArgs |-> <<>>,
     log |-> <<>>, thrown |-> "none"]

Init ==
    /\ commandOptions \in
         [allowSelf : BOOLEAN, allowBots : BOOLEAN,
          prefix : PrefixOptions, guild : GuildOptions]
    /\ task = [t \in TaskIds |-> IF t = 1 THEN IdleTask ELSE [IdleTask EXCEPT !.pc = "off"]]

(***************************************************************************)
(* The trace of a dispatch: the calls it made on its collaborators, in     *)
(* order.  op is "check", "convert", "emit" or "execute".                  *)
(***************************************************************************)
CheckCall(k, outcome) ==
    [op |-> "check", ch |-> "", idx |-> k, tag |-> outcome, args |-> <<>>]

ConvertCall(k, token, outcome, value) ==
    [op |-> "convert", ch |-> "", idx |-> k, tag |-> outcome, args |-> << Str(token), value >>]

EmitCall(channel, error, c) ==
    [op |-> "emit", ch |-> channel, idx |-> c, tag |-> error, args |-> <<>>]

ExecuteCall(c, executeArgs, outcome) ==
    [op |-> "execute", ch |-> "", idx |-> c, tag |-> outcome, args |-> executeArgs]

\* a dispatcher that keeps the tokens and the converted values in fields of
\* the handler object, which every dispatch reads and writes
BecomesShared(t, s) ==
    task' = [u \in TaskIds |->
               IF u = t THEN s
               ELSE [task[u] EXCEPT !.args = s.args, !.parsedArgs = s.parsedArgs]]

\* task t becomes s
Becomes(t, s) == task' = [task EXCEPT ![t] = s]

\* return
Return(s) == [s EXCEPT !.pc = "done"]

\* return this.client.emit(channel, error, event, command)
Emit(s, channel, error) ==
    [s EXCEPT !.pc = "done", !.log = Append(@, EmitCall(channel, error, s.cmd))]

\* an error that no handler of the dispatch catches: it rejects the
\* listener's promise, or a promise the listener has dropped
Throw(s, error) == [s EXCEPT !.pc = "done", !.thrown = error]

(***************************************************************************)
(* onMessage                                                               *)
(***************************************************************************)
\* a dispatcher without the filter on the author
FilteredNever(m) == FALSE

\* lines 24-29: the two early returns on the author
Filtered(m) ==
    \/ ~commandOptions.allowSelf /\ m.author.id = clientUserId
    \/ ~commandOptions.allowBots /\ m.author.bot

\* lines 23-34: the event arrives, is filtered, and the prefix is read
OnMessage(t, m) ==
    /\ task[t].pc = "idle"
    /\ LET s == [task[t] EXCEPT !.msg = m] IN
         IF Filtered(m) THEN Becomes(t, Return(s))
         ELSE IF commandOptions.prefix.fn
              THEN Becomes(t, [s EXCEPT !.pc = "prefix"])
              ELSE Becomes(t, [s EXCEPT !.pc = "resolve",
                                        !.prefix = commandOptions.prefix.s])
    /\ UNCHANGED commandOptions

\* line 33: await prefixFunction(msg)
AwaitPrefix(t) ==
    /\ task[t].pc = "prefix"
    /\ \E p \in PrefixResults :
         Becomes(t, [task[t] EXCEPT !.pc = "resolve", !.prefix = p])
    /\ UNCHANGED commandOptions

\* a dispatcher that tests the bot's permissions before the owner
TextGateOrderClientFirst == << "client", "owner", "user" >>

\* lines 46-76 test the owner, then the bot's permissions, then the author's
TextGateOrder == << "owner", "client", "user" >>

\* a dispatcher that tests the owner first, as onMessage does
InteractionGateOrderOwnerFirst == << "slashOwner", "slashClient", "slashUser" >>

\* lines 180-216 test the bot's permissions, the member's, then the owner
InteractionGateOrder == << "slashClient", "slashUser", "slashOwner" >>

\* where the loop over the parameters stands: at parameter k, or past the last
ArgumentStage(c, k) == IF k < Len(commandList[c].args) THEN "args" ELSE "execute"

\* where the loop over the checks stands
CheckStage(c, k) ==
    IF k < Len(commandList[c].checks) THEN "check" ELSE ArgumentStage(c, 0)

\* the stage after gate g has passed
AfterGate(order, g, then) ==
    IF IndexOf(order, g) < Len(order) THEN order[IndexOf(order, g) + 1] ELSE then

\* lines 35-45: prefix test, tokens, lookup of the command
ResolveCommand(t) ==
    /\ task[t].pc = "resolve"
    /\ LET s == task[t]
           content == s.msg.content
           split == Split(Slice(content, Len(s.prefix)))
           command == ShiftValue(split)
           c == FindCommand(command.s)
       IN IF ~StartsWith(content, s.prefix) THEN Becomes(t, Return(s))
          ELSE IF Falsy(command)
               THEN Becomes(t, Return([s EXCEPT !.args = ShiftRest(split),
                                                !.command = command]))
               ELSE IF c = 0
                    THEN Becomes(t, Return([s EXCEPT !.args = ShiftRest(split),
                                                     !.command = command]))
                    ELSE Becomes(t, [s EXCEPT !.args = ShiftRest(split),
                                              !.command = command,
                                              !.cmd = c,
                                              !.pc = TextGateOrder[1]])
    /\ UNCHANGED commandOptions

\* a dispatcher that lets everybody run an owner-only command
OwnerDeniedNever(c, authorId) == FALSE

\* lines 46-47
OwnerDenied(c, authorId) == c.ownerOnly /\ authorId \notin owners

\* line 57: !msg.guild?.me?.permissionsIn(msg.channel.id).has(cmd.clientPermissions)
ClientPermissionsMissing(c, m) == ~(m.guild /\ Has(m.me, c.clientPermissions))

\* line 68: !msg.member?.permissionsIn(msg.channel.id).has(cmd.clientPermissions)
UserPermissionsMissing(c, m) == ~(m.guild /\ Has(m.member, c.clientPermissions))

\* lines 46-54
OwnerOnlyGate(t) ==
    /\ task[t].pc = "owner"
    /\ LET s == task[t] IN
         IF OwnerDenied(commandList[s.cmd], s.msg.author.id)
         THEN Becomes(t, Emit(s, "commandError", OwnerOnlyCommand))
         ELSE Becomes(t, [s EXCEPT !.pc = AfterGate(TextGateOrder, "owner", CheckStage(s.cmd, 0))])
    /\ UNCHANGED commandOptions

\* lines 56-65
ClientPermissionsGate(t) ==
    /\ task[t].pc = "client"
    /\ LET s == task[t] IN
         IF ClientPermissionsMissing(commandList[s.cmd], s.msg)
         THEN Becomes(t, Emit(s, "commandError", MissingClientPermissions))
         ELSE Becomes(t, [s EXCEPT !.pc = AfterGate(TextGateOrder, "client", CheckStage(s.cmd, 0))])
    /\ UNCHANGED commandOptions

\* lines 67-76
UserPermissionsGate(t) ==
    /\ task[t].pc = "user"
    /\ LET s == task[t] IN
         IF UserPermissionsMissing(commandList[s.cmd], s.msg)
         THEN Becomes(t, Emit(s, "commandError", MissingUserPermissions))
         ELSE Becomes(t, [s EXCEPT !.pc = AfterGate(TextGateOrder, "user", CheckStage(s.cmd, 0))])
    /\ UNCHANGED commandOptions

\* a dispatcher that reports a raising check as a failed check
CheckRaisedEmits(s) == Emit(s, "commandError", CheckFailedError)

\* lines 89-91: catch { return }
CheckRaised(s) == Return(s)

\* a dispatcher that goes on after a check that answered false
CheckRejectsNever(outcome) == FALSE

\* line 81: !(await check(msg))
CheckRejects(outcome) == outcome = "false"

\* lines 79-92: one turn of the loop over cmd.checks
AwaitCheck(t) ==
    /\ task[t].pc = "check"
    /\ \E outcome \in CheckOutcomes :
         LET s == [task[t] EXCEPT !.log = Append(@, CheckCall(task[t].chk, outcome))] IN
           IF outcome = "throw" THEN Becomes(t, CheckRaised(s))
           ELSE IF CheckRejects(outcome)
                THEN Becomes(t, Emit(s, "commandError", CheckFailedError))
                ELSE Becomes(t, [s EXCEPT !.chk = @ + 1,
                                          !.pc = CheckStage(s.cmd, s.chk + 1)])
    /\ UNCHANGED commandOptions

\* a dispatcher that gives the rest parameter the next token only
RestValueFirstOnly(v, rest) == Str(JoinPiece(v))

\* line 99: [v, ...args].join(' ')
RestValue(v, rest) == Str(Join(<< JoinPiece(v) >> \o rest))

\* a dispatcher without the test for a missing argument
ArgumentMissingNever(arg, v) == FALSE

\* line 102: !arg.optional && !v
ArgumentMissing(arg, v) == ~arg.optional /\ Falsy(v)

\* a dispatcher without the break at an optional parameter
ArgumentOmittedNever(arg, v) == FALSE

\* line 110: arg.optional && !v
ArgumentOmitted(arg, v) == arg.optional /\ Falsy(v)

\* lines 95-120: one turn of the loop over cmd.args, up to the converter call
NextArgument(t) ==
    /\ task[t].pc = "args"
    /\ LET v == ShiftValue(task[t].args)
           s == [task[t] EXCEPT !.v = v, !.args = ShiftRest(@)]
           arg == commandList[s.cmd].args[s.i + 1]
       IN IF arg.rest
          THEN Becomes(t, [s EXCEPT !.parsedArgs = Append(@, RestValue(v, s.args)),
                                    !.pc = "execute"])
          ELSE IF ArgumentMissing(arg, v)
          THEN Becomes(t, Emit(s, "commandError", ArgumentRequiredError))
          ELSE IF ArgumentOmitted(arg, v)
          THEN Becomes(t, [s EXCEPT !.pc = "execute"])
          ELSE IF arg.type = "String"
          THEN Becomes(t, [s EXCEPT !.parsedArgs = ArraySet(@, s.i, v),
                                    !.i = @ + 1,
                                    !.pc = ArgumentStage(s.cmd, s.i + 1)])
          ELSE IF FindConverter(arg.type) = 0
          THEN Becomes(t, Emit(s, "commandError", NoConverterError))
          ELSE Becomes(t, [s EXCEPT !.pc = "convert"])
    /\ UNCHANGED commandOptions

\* what converter.convert.apply(converter.module, [v, msg]) may do
ConverterOutcomes(converter, token, m) ==
    IF converter.convert = "number"
    THEN { [raised |-> FALSE, value |-> number(ConverterArgument(token, m))] }
    ELSE IF converter.convert = "string"
    THEN { [raised |-> FALSE, value |-> Str(ConverterArgument(token, m))] }
    ELSE { [raised |-> FALSE, value |-> r] : r \in CustomResults }
         \cup { [raised |-> TRUE, value |-> Undefined] }

\* a dispatcher that takes only undefined and null for no result
NoResultOnlyAbsent(value) == value.t \in {"undefined", "null"}

\* line 126: !parsedArgs[i]
NoResult(value) == Falsy(value)

\* lines 121-136: the converter's answer
AwaitConverter(t) ==
    /\ task[t].pc = "convert"
    /\ LET arg == commandList[task[t].cmd].args[task[t].i + 1]
           converter == argConverterList[FindConverter(arg.type)]
       IN \E o \in ConverterOutcomes(converter, task[t].v.s, task[t].msg) :
            LET s == [task[t] EXCEPT !.log = Append(@,
                        ConvertCall(task[t].i, task[t].v.s,
                                    IF o.raised THEN "raised" ELSE "returned", o.value))]
            IN IF o.raised
               THEN Becomes(t, Emit(s, "commandError", ConverterRaised))
               ELSE IF NoResult(o.value)
               THEN Becomes(t, Emit([s EXCEPT !.parsedArgs = ArraySet(@, s.i, o.value)],
                                    "commandError", NoResultError))
               ELSE Becomes(t, [s EXCEPT !.parsedArgs = ArraySet(@, s.i, o.value),
                                         !.i = @ + 1,
                                         !.pc = ArgumentStage(s.cmd, s.i + 1)])
    /\ UNCHANGED commandOptions

\* lines 148-154: new Context(msg, prefix) or msg, then the converted values
ExecuteArgs(s) ==
    << IF commandList[s.cmd].usesCtx
       THEN [t |-> "Context", n |-> 0, s |-> s.prefix]
       ELSE [t |-> "Message", n |-> 0, s |-> <<>>] >> \o s.parsedArgs

\* line 156: cmd.execute.apply(...) is not awaited, so that only an error
\* raised before the handler returns reaches the catch of lines 157-158
Caught(outcome) == outcome = "throws"

\* lines 148-159
Execute(t) ==
    /\ task[t].pc = "execute"
    /\ \E outcome \in HandlerOutcomes :
         LET s == [task[t] EXCEPT !.log = Append(@,
                     ExecuteCall(task[t].cmd, ExecuteArgs(task[t]), outcome))]
         IN IF outcome = "returns" THEN Becomes(t, Return(s))
            ELSE IF Caught(outcome)
                 THEN Becomes(t, Emit(s, "commandError", HandlerRaised))
                 ELSE Becomes(t, Throw(s, HandlerRaised))
    /\ UNCHANGED commandOptions

(***************************************************************************)
(* interaction                                                             *)
(***************************************************************************)
\* String.prototype.includes
Includes(s, sub) ==
    \E k \in 0..(Len(s) - Len(sub)) : SubSeq(s, k + 1, k + Len(sub)) = sub

\* lines 165-167: guild && guild !== i.guildId
OtherGuild(guild, guildId) ==
    \/ guild.kind = "array"
    \/ guild.kind = "string" /\ guild.s # <<>>
         /\ ~(guildId.t = "string" /\ guildId.s = guild.s)

\* lines 168-170: guild.includes(i.guildId), reached with a guild that is
\* unset (a TypeError) or a string
GuildIncludes(guild, guildId) ==
    guild.kind = "string"
    /\ Includes(guild.s, IF guildId.t = "null" THEN <<"n","u","l","l">> ELSE guildId.s)

\* lines 163-178: the guild test, isCommand, lookup of the slash command
Interaction(t, x) ==
    /\ task[t].pc = "idle"
    /\ LET s == [task[t] EXCEPT !.interaction = x]
           guild == commandOptions.guild
           command == FindSlashCommand(x.command)
       IN IF OtherGuild(guild, x.guildId) THEN Becomes(t, Return(s))
          ELSE IF guild.kind = "undefined" THEN Becomes(t, Throw(s, TypeError))
          ELSE IF ~GuildIncludes(guild, x.guildId) THEN Becomes(t, Return(s))
          ELSE IF ~x.isCommand THEN Becomes(t, Return(s))
          ELSE IF x.command = NoCommand THEN Becomes(t, Throw(s, TypeError))
          ELSE IF command = 0 THEN Becomes(t, Return(s))
          ELSE Becomes(t, [s EXCEPT !.cmd = command, !.pc = InteractionGateOrder[1]])
    /\ UNCHANGED commandOptions

\* line 181
SlashClientPermissionsMissing(c, x) ==
    ~(x.guildId.t = "string" /\ Has(x.me, c.clientPermissions))

\* lines 196-198
SlashUserPermissionsMissing(c, x) ==
    ~(x.guildId.t = "string" /\ Has(x.member, c.clientPermissions))

\* lines 208-209
SlashOwnerDenied(c, userId) == c.ownerOnly /\ userId \notin owners

\* lines 180-193
SlashClientPermissionsGate(t) ==
    /\ task[t].pc = "slashClient"
    /\ LET s == task[t] IN
         IF SlashClientPermissionsMissing(slashCommandList[s.cmd], s.interaction)
         THEN Becomes(t, Emit(s, "slashCommandError", MissingSlashClientPermissions))
         ELSE Becomes(t, [s EXCEPT !.pc = AfterGate(InteractionGateOrder, "slashClient", "slashExecute")])
    /\ UNCHANGED commandOptions

\* lines 195-206
SlashUserPermissionsGate(t) ==
    /\ task[t].pc = "slashUser"
    /\ LET s == task[t] IN
         IF SlashUserPermissionsMissing(slashCommandList[s.cmd], s.interaction)
         THEN Becomes(t, Emit(s, "slashCommandError", MissingSlashUserPermissions))
         ELSE Becomes(t, [s EXCEPT !.pc = AfterGate(InteractionGateOrder, "slashUser", "slashExecute")])
    /\ UNCHANGED commandOptions

\* lines 208-216
SlashOwnerOnlyGate(t) ==
    /\ task[t].pc = "slashOwner"
    /\ LET s == task[t] IN
         IF SlashOwnerDenied(slashCommandList[s.cmd], s.interaction.user)
         THEN Becomes(t, Emit(s, "slashCommandError", OwnerOnlySlashCommand))
         ELSE Becomes(t, [s EXCEPT !.pc = AfterGate(InteractionGateOrder, "slashOwner", "slashExecute")])
    /\ UNCHANGED commandOptions

\* line 219: [i, i.options]
SlashExecuteArgs == << [t |-> "Interaction", n |-> 0, s |-> <<>>],
                       [t |-> "Options", n |-> 0, s |-> <<>>] >>

\* lines 218-222: await command.execute.apply(...) inside try
AwaitSlashExecute(t) ==
    /\ task[t].pc = "slashExecute"
    /\ \E outcome \in HandlerOutcomes :
         LET s == [task[t] EXCEPT !.log = Append(@,
                     ExecuteCall(task[t].cmd, SlashExecuteArgs, outcome))]
         IN IF outcome = "returns" THEN Becomes(t, Return(s))
            ELSE Becomes(t, Emit(s, "slashCommandError", HandlerRaised))
    /\ UNCHANGED commandOptions

(***************************************************************************)
(* Specification                                                           *)
(***************************************************************************)
\* one step of dispatch t: an event of the platform reaches a listener, or
\* the dispatch goes on from where it stands
Dispatch(t, messages, interactions) ==
    \/ \E m \in messages : OnMessage(t, m)
    \/ AwaitPrefix(t)
    \/ ResolveCommand(t)
    \/ OwnerOnlyGate(t)
    \/ ClientPermissionsGate(t)
    \/ UserPermissionsGate(t)
    \/ AwaitCheck(t)
    \/ NextArgument(t)
    \/ AwaitConverter(t)
    \/ Execute(t)
    \/ \E x \in interactions : Interaction(t, x)
    \/ SlashClientPermissionsGate(t)
    \/ SlashUserPermissionsGate(t)
    \/ SlashOwnerOnlyGate(t)
    \/ AwaitSlashExecute(t)

Next == \E t \in TaskIds : Dispatch(t, Messages, Interactions)

Spec == Init /\ [][Next]_vars

(***************************************************************************)
(* Two dispatches at once.  Each listener call is an async function of its  *)
(* own: the event loop runs one dispatch up to its next await, then any     *)
(* dispatch whose awaited promise has settled.  A collaborator that never   *)
(* answers leaves its dispatch at the await for good.                       *)
(***************************************************************************)
\* the options of the concurrent dispatches: the prefix is a function and
\* the slash commands belong to guild G1
ConcurrentOptions ==
    [allowSelf |-> FALSE, allowBots |-> FALSE,
     prefix |-> [fn |-> TRUE, s |-> <<>>],
     guild |-> [kind |-> "string", s |-> G1, a |-> <<>>]]

\* the text events of the concurrent dispatches, sent by the owner in a
\* guild where the bot and the owner hold every permission
ConcurrentMessages ==
    { [author |-> [id |-> "owner", bot |-> FALSE], content |-> c,
       guild |-> TRUE, me |-> Permissions, member |-> Permissions] :
        c \in { Bang \o Join(<< W_add, <<"3">>, <<"7">> >>),
                Bang \o Join(<< W_say, <<"a">>, <<"b">> >>),
                Bang \o Join(<< W_ban, <<"u">> >>) } }

ConcurrentInteractions ==
    { [guildId |-> Str(G1), me |-> Permissions, member |-> Permissions,
       isCommand |-> TRUE, command |-> "ban", user |-> "owner"] }

InitConcurrent ==
    /\ commandOptions = ConcurrentOptions
    /\ task = [t \in TaskIds |-> IdleTask]

NextConcurrent ==
    \E t \in TaskIds : Dispatch(t, ConcurrentMessages, ConcurrentInteractions)

\* the collaborators of dispatch 1 answer; those of dispatch 2 may never do
SpecConcurrent ==
    /\ InitConcurrent
    /\ [][NextConcurrent]_vars
    /\ WF_vars(Dispatch(1, ConcurrentMessages, ConcurrentInteractions))

(***************************************************************************)
(* Reading the trace of a dispatch                                         *)
(***************************************************************************)
\* the positions of the calls of one kind
Ops(s, op) == {k \in 1..Len(s.log) : s.log[k].op = op}

\* the errors emitted, in order
Errors(s) ==
    LET emitted == SelectSeq(s.log, LAMBDA e : e.op = "emit")
    IN [k \in 1..Len(emitted) |-> emitted[k].tag]

TextTask(s) == s.msg # NoMessage

SlashTask(s) == s.interaction # NoInteraction

(***************************************************************************)
(* Properties                                                              *)
(***************************************************************************)
\* C1: whenever the handler of a command has been invoked for a text event,
\* the event passed the self/bot filter, its text starts with the resolved
\* prefix, the command is the one its first token resolves to, an owner-only
\* command has an owner as author, the bot and the author both hold the
\* command's permissions where the event happened, every check of the command
\* was evaluated and returned true, and nothing was emitted before.
AuthorizedInvocation ==
    \A t \in TaskIds :
      LET s == task[t]
          m == s.msg
      IN \A k \in Ops(s, "execute") :
           TextTask(s) =>
             LET c == commandList[s.log[k].idx]
                 tokens == Split(Slice(m.content, Len(s.prefix)))
             IN /\ ~(~commandOptions.allowSelf /\ m.author.id = clientUserId)
                /\ ~(~commandOptions.allowBots /\ m.author.bot)
                /\ StartsWith(m.content, s.prefix)
                /\ s.log[k].idx = s.cmd
                /\ s.cmd = FindCommand(tokens[1])
                /\ c.ownerOnly => m.author.id \in owners
                /\ m.guild
                /\ c.clientPermissions \subseteq m.me
                /\ c.clientPermissions \subseteq m.member
                /\ \A j \in 0..(Len(c.checks) - 1) :
                     \E n \in 1..(k - 1) : s.log[n] = CheckCall(j, "true")
                /\ \A n \in Ops(s, "check") : s.log[n].tag = "true"
                /\ \A n \in 1..(k - 1) : s.log[n].op # "emit"

\* the handler of the owner-only command ban, which needs a permission and
\* has two checks, has been invoked
AuthorizedInvocationWitness ==
    \E t \in TaskIds :
       /\ TextTask(task[t])
       /\ Ops(task[t], "execute") # {}
       /\ commandList[task[t].cmd].name = W_ban

\* C2: for a resolved text command the gates are owner-only, then the bot's
\* permissions, then the author's, then the checks: the one error emitted is
\* that of the first gate that fails, and no check is evaluated unless all
\* three gates passed.
TextGatesInOrder ==
    \A t \in TaskIds :
      LET s == task[t]
          m == s.msg
          c == commandList[s.cmd]
          owner == c.ownerOnly /\ m.author.id \notin owners
          client == ~(m.guild /\ c.clientPermissions \subseteq m.me)
          user == ~(m.guild /\ c.clientPermissions \subseteq m.member)
      IN (TextTask(s) /\ s.cmd # 0) =>
           /\ s.pc \notin {"owner", "client", "user"} =>
                /\ owner => Errors(s) = << OwnerOnlyCommand >>
                /\ (~owner /\ client) => Errors(s) = << MissingClientPermissions >>
                /\ (~owner /\ ~client /\ user) => Errors(s) = << MissingUserPermissions >>
           /\ \A k \in Ops(s, "emit") :
                /\ s.log[k].tag = OwnerOnlyCommand => owner
                /\ s.log[k].tag = MissingClientPermissions => ~owner /\ client
                /\ s.log[k].tag = MissingUserPermissions => ~owner /\ ~client /\ user
                /\ s.log[k].tag = CheckFailedError => ~owner /\ ~client /\ ~user
           /\ Ops(s, "check") # {} => ~owner /\ ~client /\ ~user

\* all three gates would fail, and OwnerOnly is what was emitted
TextGatesInOrderWitness ==
    \E t \in TaskIds :
      LET s == task[t] IN
        /\ TextTask(s) /\ s.cmd # 0 /\ s.pc = "done"
        /\ commandList[s.cmd].ownerOnly /\ s.msg.author.id \notin owners
        /\ ~s.msg.guild
        /\ Errors(s) = << OwnerOnlyCommand >>

\* C3: for a resolved slash command the gates are the bot's permissions,
\* then the member's, then owner-only: when both permissions are lacking the
\* error is MissingClientPermissions and no other, also for an actor who is
\* no owner, and OwnerOnly is emitted only after both permission gates passed.
InteractionGatesInOrder ==
    \A t \in TaskIds :
      LET s == task[t]
          x == s.interaction
          c == slashCommandList[s.cmd]
          client == ~(x.guildId.t = "string" /\ c.clientPermissions \subseteq x.me)
          user == ~(x.guildId.t = "string" /\ c.clientPermissions \subseteq x.member)
          owner == c.ownerOnly /\ x.user \notin owners
      IN (SlashTask(s) /\ s.cmd # 0) =>
           /\ s.pc \notin {"slashClient", "slashUser", "slashOwner"} =>
                /\ client => Errors(s) = << MissingSlashClientPermissions >>
                /\ (~client /\ user) => Errors(s) = << MissingSlashUserPermissions >>
                /\ (~client /\ ~user /\ owner) => Errors(s) = << OwnerOnlySlashCommand >>
           /\ \A k \in Ops(s, "emit") :
                /\ s.log[k].tag = MissingSlashClientPermissions => client
                /\ s.log[k].tag = MissingSlashUserPermissions => ~client /\ user
                /\ s.log[k].tag = OwnerOnlySlashCommand => ~client /\ ~user /\ owner
           /\ Ops(s, "execute") # {} => ~client /\ ~user /\ ~owner

\* both permissions are lacking and the actor is no owner of the owner-only
\* command: MissingClientPermissions is what was emitted
InteractionGatesInOrderWitness ==
    \E t \in TaskIds :
      LET s == task[t] IN
        /\ SlashTask(s) /\ s.cmd # 0 /\ s.pc = "done"
        /\ slashCommandList[s.cmd].ownerOnly /\ s.interaction.user \notin owners
        /\ ~(slashCommandList[s.cmd].clientPermissions \subseteq s.interaction.me)
        /\ ~(slashCommandList[s.cmd].clientPermissions \subseteq s.interaction.member)
        /\ Errors(s) = << MissingSlashClientPermissions >>

\* C4: every failure after the command is resolved (a gate, a check that
\* returns false, a missing argument, a missing converter, a conversion that
\* fails or raises, a handler that raises) is emitted exactly once, no
\* dispatch emits twice, and nothing runs after the emission.
FailFastEmitOnce ==
    \A t \in TaskIds :
      LET s == task[t]
          failed == /\ \A k \in Ops(s, "execute") : s.log[k].tag # "returns"
                    /\ \A k \in Ops(s, "check") : s.log[k].tag # "throw"
      IN /\ Cardinality(Ops(s, "emit")) <= 1
         /\ \A k \in Ops(s, "emit") : k = Len(s.log) /\ s.pc = "done"
         /\ (s.cmd # 0 /\ s.pc = "done" /\ failed) => Cardinality(Ops(s, "emit")) = 1

\* C5: when a check raises during text dispatch, the dispatch ends there:
\* nothing is emitted, no later check is evaluated, no converter and no
\* handler is invoked.
SilentAbortOnThrowingCheck ==
    \A t \in TaskIds :
      LET s == task[t] IN
        \A k \in Ops(s, "check") :
          s.log[k].tag = "throw" =>
            /\ k = Len(s.log)
            /\ s.pc = "done"
            /\ Ops(s, "emit") = {}
            /\ Ops(s, "convert") = {}
            /\ Ops(s, "execute") = {}
            /\ s.thrown = "none"

\* the second check of a command raised after the first returned true
SilentAbortOnThrowingCheckWitness ==
    \E t \in TaskIds :
       /\ TextTask(task[t])
       /\ task[t].log = << CheckCall(0, "true"), CheckCall(1, "throw") >>

\* C6: when a converter returns a falsy value (undefined, null, 0, the empty
\* string, false) the dispatch emits the no-result error and ends without
\* invoking the handler; "!add 0 3" with the number converter ends so after
\* one conversion, that of the first parameter.
FalsyResultFails ==
    \A t \in TaskIds :
      LET s == task[t] IN
        /\ \A k \in Ops(s, "convert") :
             ( /\ s.log[k].tag = "returned"
               /\ s.log[k].args[2] \in {Undefined, Null, Num(0), Str(<<>>), Bool(FALSE)} )
             => /\ Len(s.log) = k + 1
                /\ s.log[k + 1] = EmitCall("commandError", NoResultError, s.cmd)
                /\ s.pc = "done"
        /\ s.msg.content = Bang \o Join(<< W_add, <<"0">>, <<"3">> >>) =>
             /\ Ops(s, "execute") = {}
             /\ \A k \in Ops(s, "convert") :
                  s.log[k].idx = 0 /\ s.log[k].args = << Str(<<"0">>), Num(0) >>

\* "!add 0 3" has ended with the no-result error
FalsyResultFailsWitness ==
    \E t \in TaskIds :
       /\ task[t].msg.content = Bang \o Join(<< W_add, <<"0">>, <<"3">> >>)
       /\ task[t].pc = "done"
       /\ Ops(task[t], "convert") # {}
       /\ Errors(task[t]) = << NoResultError >>

\* C7: a text event that reaches the lookup resolves to command c whenever
\* its first token, lowercased, equals c's lowercased name or one of c's
\* lowercased aliases, and to nothing when no command matches so.
CaseInsensitiveResolution ==
    \A t \in TaskIds :
      LET s == task[t]
          m == s.msg
          token == Split(Slice(m.content, Len(s.prefix)))[1]
          matches(c) ==
            \/ ToLowerCase(token) = ToLowerCase(c.name)
            \/ \E a \in 1..Len(c.aliases) : ToLowerCase(token) = ToLowerCase(c.aliases[a])
      IN ( /\ TextTask(s)
           /\ s.pc \notin {"idle", "prefix", "resolve"}
           /\ ~(~commandOptions.allowSelf /\ m.author.id = clientUserId)
           /\ ~(~commandOptions.allowBots /\ m.author.bot)
           /\ StartsWith(m.content, s.prefix)
           /\ token # <<>> )
         => /\ \A k \in 1..Len(commandList) : matches(commandList[k]) => s.cmd = k
            /\ (\A k \in 1..Len(commandList) : ~matches(commandList[k])) => s.cmd = 0

\* a dispatch that has ended never moves again
EndedForGood(t) == task[t].pc = "done" => task'[t] = task[t]

\* C8: when the loop over the parameters reaches a parameter that is neither
\* optional nor rest and no token remains, the dispatch emits the
\* required-argument error at that index and ends: no converter is invoked
\* for that or a later parameter, and the handler is not invoked.
MissingRequiredArgument ==
    [][\A t \in TaskIds :
         LET s == task[t] IN
           /\ EndedForGood(t)
           /\ ( /\ TextTask(s) /\ s.pc = "args" /\ s.args = <<>>
                /\ ~commandList[s.cmd].args[s.i + 1].optional
                /\ ~commandList[s.cmd].args[s.i + 1].rest
                /\ task'[t] # s )
              => /\ task'[t].pc = "done"
                 /\ task'[t].log =
                      Append(s.log, EmitCall("commandError", ArgumentRequiredError, s.cmd))
                 /\ task'[t].i = s.i
                 /\ task'[t].parsedArgs = s.parsedArgs]_vars

\* parameters [required, optional] and no token: the error at index 0
MissingRequiredArgumentWitness ==
    \E t \in TaskIds :
      LET s == task[t] IN
        /\ TextTask(s) /\ s.cmd # 0 /\ s.pc = "done"
        /\ commandList[s.cmd].name = W_ban
        /\ s.i = 0 /\ s.args = <<>> /\ s.v = Undefined
        /\ Ops(s, "convert") = {} /\ Ops(s, "execute") = {}
        /\ Errors(s) = << ArgumentRequiredError >>

\* the step that invokes the handler hands it the converted values
InvokedWithParsedArgs(t) ==
    (task[t].pc = "execute" /\ task'[t] # task[t]) =>
       /\ Len(task'[t].log) > Len(task[t].log)
       /\ task'[t].log[Len(task[t].log) + 1].op = "execute"
       /\ Tail(task'[t].log[Len(task[t].log) + 1].args) = task[t].parsedArgs

\* C9 as stated: when the loop reaches an optional parameter and no token
\* remains, it stops without an emission, the values converted so far are
\* unchanged, and the handler is invoked with exactly those values.
OptionalParameterStops ==
    [][\A t \in TaskIds :
         LET s == task[t] IN
           /\ InvokedWithParsedArgs(t)
           /\ ( /\ TextTask(s) /\ s.pc = "args" /\ s.args = <<>>
                /\ commandList[s.cmd].args[s.i + 1].optional
                /\ task'[t] # s )
              => /\ task'[t].pc = "execute"
                 /\ task'[t].log = s.log
                 /\ task'[t].parsedArgs = s.parsedArgs]_vars

\* C9, amended: the same for an optional parameter that is not a rest
\* parameter.
OptionalNonRestParameterStops ==
    [][\A t \in TaskIds :
         LET s == task[t] IN
           /\ InvokedWithParsedArgs(t)
           /\ ( /\ TextTask(s) /\ s.pc = "args" /\ s.args = <<>>
                /\ commandList[s.cmd].args[s.i + 1].optional
                /\ ~commandList[s.cmd].args[s.i + 1].rest
                /\ task'[t] # s )
              => /\ task'[t].pc = "execute"
                 /\ task'[t].log = s.log
                 /\ task'[t].parsedArgs = s.parsedArgs]_vars

\* parameters [required, optional] and one token: the handler was invoked
\* with the one converted value
OptionalNonRestParameterStopsWitness ==
    \E t \in TaskIds :
      LET s == task[t] IN
        /\ TextTask(s) /\ s.cmd # 0 /\ s.pc = "done"
        /\ commandList[s.cmd].name = W_ban
        /\ s.i = 1 /\ s.args = <<>> /\ s.v = Undefined
        /\ Errors(s) = <<>>
        /\ \E k \in Ops(s, "execute") :
             s.log[k].args = << [t |-> "Message", n |-> 0, s |-> <<>>], Obj(1) >>

\* C10: when the loop reaches a rest parameter at index i with tokens left,
\* the value is the one string of all the remaining tokens joined by single
\* spaces, it is stored at position i right after the values of the
\* parameters before it, no converter is consulted and the loop ends.
RestParameterJoins ==
    [][\A t \in TaskIds :
         LET s == task[t] IN
           ( /\ TextTask(s) /\ s.pc = "args" /\ s.args # <<>>
             /\ commandList[s.cmd].args[s.i + 1].rest
             /\ task'[t] # s )
           => /\ task'[t].pc = "execute"
              /\ task'[t].log = s.log
              /\ Len(s.parsedArgs) = s.i
              /\ Len(task'[t].parsedArgs) = s.i + 1
              /\ SubSeq(task'[t].parsedArgs, 1, s.i) = s.parsedArgs
              /\ task'[t].parsedArgs[s.i + 1].t = "string"
              /\ Split(task'[t].parsedArgs[s.i + 1].s) = s.args
              /\ s.args = << <<"h","e","l","l","o">>, <<"w","o","r","l","d">> >> =>
                   task'[t].parsedArgs[s.i + 1] =
                     Str(<<"h","e","l","l","o"," ","w","o","r","l","d">>)]_vars

\* "!tell a b c": the rest parameter at index 1 got "b c"
RestParameterJoinsWitness ==
    \E t \in TaskIds :
       /\ TextTask(task[t])
       /\ task[t].pc = "execute"
       /\ task[t].parsedArgs = << Str(<<"a">>), Str(<<"b"," ","c">>) >>

\* C11: in text dispatch every error of the invoked handler, raised before
\* it returns or later by an asynchronous handler, is caught and emitted
\* exactly once on commandError with the resolved command, and none leaves
\* the dispatch uncaught.
HandlerFailureContained ==
    \A t \in TaskIds :
      LET s == task[t] IN
        \A k \in Ops(s, "execute") :
          (TextTask(s) /\ s.log[k].tag \in {"throws", "rejects"}) =>
             /\ s.thrown = "none"
             /\ Len(s.log) = k + 1
             /\ s.log[k + 1] = EmitCall("commandError", HandlerRaised, s.cmd)

\* C12: a text event that is filtered, or whose text does not start with
\* the resolved prefix, or whose first token is empty or is the name or
\* alias of no command, ends without any emission, check, conversion or
\* handler invocation.
SilentDrops ==
    \A t \in TaskIds :
      LET s == task[t]
          m == s.msg
          token == Split(Slice(m.content, Len(s.prefix)))[1]
          filtered == \/ ~commandOptions.allowSelf /\ m.author.id = clientUserId
                      \/ ~commandOptions.allowBots /\ m.author.bot
          named(c) ==
            \/ ToLowerCase(token) = ToLowerCase(c.name)
            \/ \E a \in 1..Len(c.aliases) : ToLowerCase(token) = ToLowerCase(c.aliases[a])
          silent == s.pc = "done" /\ s.log = <<>> /\ s.cmd = 0 /\ s.thrown = "none"
      IN TextTask(s) =>
           /\ filtered => silent
           /\ (~filtered /\ s.pc \notin {"prefix", "resolve"}) =>
                /\ ~StartsWith(m.content, s.prefix) => silent
                /\ (StartsWith(m.content, s.prefix) /\ token = <<>>) => silent
                /\ ( /\ StartsWith(m.content, s.prefix)
                     /\ \A k \in 1..Len(commandList) : ~named(commandList[k]) ) => silent

\* "!pong" passed the filter and the prefix test and was dropped at the
\* lookup
SilentDropsWitness ==
    \E t \in TaskIds :
      LET s == task[t] IN
        /\ TextTask(s) /\ s.pc = "done" /\ s.log = <<>>
        /\ s.prefix = Bang
        /\ s.command = Str(<<"p","o","n","g">>)

\* C14: the checks of the resolved command are called one at a time in
\* the order of their registration, each after the one before it has
\* answered true; the first that answers false ends the dispatch with one
\* CheckFailedError emission and nothing else, and no later check is called.
CheckPipelineOrder ==
    \A t \in TaskIds :
      LET s == task[t]
          checks == SelectSeq(s.log, LAMBDA e : e.op = "check")
      IN TextTask(s) =>
           /\ \A k \in 1..Len(s.log) :
                s.log[k].op = "check" =>
                  /\ k <= Len(commandList[s.cmd].checks)
                  /\ s.log[k] = checks[k]
                  /\ s.log[k].idx = k - 1
                  /\ k < Len(checks) => s.log[k].tag = "true"
                  /\ s.log[k].tag = "false" =>
                        /\ s.pc = "done"
                        /\ s.thrown = "none"
                        /\ Len(s.log) = k + 1
                        /\ s.log[k + 1] = EmitCall("commandError", CheckFailedError, s.cmd)
           /\ s.pc = "check" => /\ s.chk = Len(checks)
                                /\ s.log = checks
           /\ Ops(s, "execute") # {} =>
                /\ Len(checks) = Len(commandList[s.cmd].checks)
                /\ \A k \in 1..Len(checks) : checks[k].tag = "true"

\* the second check of ban answered false after the first answered true
CheckPipelineOrderWitness ==
    \E t \in TaskIds :
      LET s == task[t] IN
        /\ TextTask(s) /\ s.pc = "done"
        /\ Len(s.log) = 3
        /\ s.log[1] = CheckCall(0, "true")
        /\ s.log[2] = CheckCall(1, "false")
        /\ s.log[3] = EmitCall("commandError", CheckFailedError, s.cmd)

\* C15: a text event is dropped by the filter if and only if its author is
\* the bot itself and self-messages are disallowed, or its author is another
\* bot and bot-messages are disallowed; with self-messages allowed the bot's
\* own message passes the filter whatever the bot-messages setting.
SelfBotFilterExact ==
    [][\A t \in TaskIds :
         (task[t].pc = "idle" /\ TextTask(task'[t])) =>
            LET author == task'[t].msg.author
                self == author.id = clientUserId
            IN task'[t].pc = "done" <=>
                 \/ self /\ ~commandOptions.allowSelf
                 \/ ~self /\ author.bot /\ ~commandOptions.allowBots]_vars

\* C16: for a resolved command that passed the owner gate,
\* MissingClientPermissions is emitted if and only if the bot's permissions
\* in the event's location do not satisfy the command's required set, and
\* MissingUserPermissions if and only if the client gate passed and the
\* author's permissions do not satisfy it; a command that requires no
\* permission is rejected by neither gate, in a direct message either.
PermissionGatesPrecise ==
    \A t \in TaskIds :
      LET s == task[t]
          required == commandList[s.cmd].clientPermissions
          emitted(error) == \E k \in Ops(s, "emit") : s.log[k].tag = error
          ownerPassed == s.pc # "owner" /\ ~emitted(OwnerOnlyCommand)
      IN (TextTask(s) /\ s.cmd # 0 /\ ownerPassed) =>
           /\ s.pc # "client" =>
                (emitted(MissingClientPermissions) <=> ~Has(s.msg.me, required))
           /\ s.pc \notin {"client", "user"} =>
                (emitted(MissingUserPermissions) <=>
                   Has(s.msg.me, required) /\ ~Has(s.msg.member, required))
           /\ required = {} =>
                ~emitted(MissingClientPermissions) /\ ~emitted(MissingUserPermissions)

\* C17: a command interaction that names a registered slash command and
\* passes the client-permission, user-permission and owner-only gates has
\* its handler invoked exactly once with [interaction, options], whether the
\* guild option is unset, the event's guild id, or a list holding it; an
\* error of the handler is emitted once and the dispatch itself raises
\* nothing.
InteractionDispatchComplete ==
    \A t \in TaskIds :
      LET s == task[t]
          x == s.interaction
          guild == commandOptions.guild
          c == slashCommandList[FindSlashCommand(x.command)]
          configured ==
            \/ guild.kind = "undefined"
            \/ guild.kind = "string" /\ guild.s = x.guildId.s
            \/ guild.kind = "array" /\ \E k \in 1..Len(guild.a) : guild.a[k] = x.guildId.s
          gatesPass ==
            /\ Has(x.me, c.clientPermissions)
            /\ Has(x.member, c.clientPermissions)
            /\ ~(c.ownerOnly /\ x.user \notin owners)
          calls == Ops(s, "execute")
      IN ( /\ SlashTask(s) /\ s.pc = "done"
           /\ x.isCommand /\ x.guildId.t = "string"
           /\ FindSlashCommand(x.command) # 0
           /\ configured /\ gatesPass ) =>
             /\ s.thrown = "none"
             /\ Cardinality(calls) = 1
             /\ \A k \in calls :
                  /\ s.log[k].args = SlashExecuteArgs
                  /\ s.log[k].tag = "returns" => Len(s.log) = k
                  /\ s.log[k].tag # "returns" =>
                       /\ Len(s.log) = k + 1
                       /\ s.log[k + 1] = EmitCall("slashCommandError", HandlerRaised, s.cmd)

\* C19: each parameter that is not a rest parameter takes the next token
\* of the single-space split: the required-argument error is emitted only
\* when no token remains, an optional parameter stops the loop only when no
\* token remains, and a token that is there, the empty token of two
\* consecutive spaces included, is the value of a plain-string parameter.
TokenPerParameter ==
    [][\A t \in TaskIds :
         LET s == task[t]
             arg == commandList[s.cmd].args[s.i + 1]
         IN (s.pc = "args" /\ task'[t] # s /\ ~arg.rest) =>
              /\ task'[t].log = Append(s.log, EmitCall("commandError", ArgumentRequiredError, s.cmd))
                   => s.args = <<>>
              /\ (arg.optional /\ task'[t].pc = "execute" /\ task'[t].i = s.i)
                   => s.args = <<>>
              /\ (s.args # <<>> /\ arg.type = "String") =>
                   /\ task'[t].parsedArgs = ArraySet(s.parsedArgs, s.i, Str(s.args[1]))
                   /\ task'[t].args = Tail(s.args)]_vars

\* C18: at a parameter that is not a rest parameter and has a token, the
\* plain string type takes the token as the value and calls no converter; any
\* other type without a registered converter ends the dispatch with the one
\* emission of the no-converter error; a converter that raises ends it with
\* the one emission of the error it raised; the handler is invoked in
\* neither failure case.
ConverterStageClassification ==
    [][\A t \in TaskIds :
         LET s == task[t]
             arg == commandList[s.cmd].args[s.i + 1]
         IN /\ (s.pc = "args" /\ task'[t] # s /\ ~arg.rest /\ s.args # <<>>) =>
                 /\ arg.type = "String" =>
                      /\ task'[t].parsedArgs = ArraySet(s.parsedArgs, s.i, Str(s.args[1]))
                      /\ task'[t].log = s.log
                      /\ task'[t].pc = ArgumentStage(s.cmd, s.i + 1)
                 /\ (arg.type # "String" /\ FindConverter(arg.type) = 0) =>
                      /\ task'[t].pc = "done"
                      /\ task'[t].thrown = "none"
                      /\ task'[t].log = Append(s.log, EmitCall("commandError", NoConverterError, s.cmd))
                 /\ (arg.type # "String" /\ FindConverter(arg.type) # 0) =>
                      /\ task'[t].pc = "convert"
                      /\ task'[t].log = s.log
            /\ (s.pc = "convert" /\ task'[t] # s) =>
                 LET call == task'[t].log[Len(s.log) + 1] IN
                   /\ call.op = "convert"
                   /\ call.idx = s.i
                   /\ call.tag = "raised" =>
                        /\ task'[t].pc = "done"
                        /\ task'[t].thrown = "none"
                        /\ task'[t].log = s.log \o
                             << call, EmitCall("commandError", ConverterRaised, s.cmd) >>]_vars

\* C20: when the loop reaches a rest parameter, optional or not, and no
\* token remains, nothing is emitted, the rest value is the empty string at
\* the position of the rest parameter, and the handler is invoked with it.
RestParameterWithoutTokens ==
    [][\A t \in TaskIds :
         LET s == task[t]
             arg == commandList[s.cmd].args[s.i + 1]
         IN /\ (s.pc = "args" /\ task'[t] # s /\ arg.rest /\ s.args = <<>>) =>
                 /\ task'[t].pc = "execute"
                 /\ task'[t].log = s.log
                 /\ Len(task'[t].parsedArgs) = s.i + 1
                 /\ task'[t].parsedArgs[s.i + 1] = Str(<<>>)
                 /\ SubSeq(task'[t].parsedArgs, 1, s.i) = s.parsedArgs
            /\ InvokedWithParsedArgs(t)]_vars

\* "!say" invoked its handler with the empty string for the rest parameter
RestParameterWithoutTokensWitness ==
    \E t \in TaskIds :
      LET s == task[t] IN
        /\ TextTask(s) /\ s.pc = "done"
        /\ s.cmd # 0
        /\ commandList[s.cmd].name = W_say
        /\ s.args = <<>> /\ s.v = Undefined
        /\ Len(s.log) = 1
        /\ s.log[1].op = "execute"
        /\ Tail(s.log[1].args) = << Str(<<>>) >>

\* what the collaborators of a dispatch answered, in order: the outcome of
\* each check, converter and handler call, and the value a converter returned
Answers(s) ==
    LET calls == SelectSeq(s.log, LAMBDA e : e.op # "emit")
    IN [k \in 1..Len(calls) |->
          << calls[k].op, calls[k].tag,
             IF calls[k].op = "convert" THEN calls[k].args[2] ELSE Undefined >>]

\* two dispatches of the same event that got the same answers and stand at
\* the same place agree on everything: tokens, values, emissions, invocation
SameEventSameOutcome ==
    \A t, u \in TaskIds :
       ( /\ task[t].msg = task[u].msg
         /\ task[t].interaction = task[u].interaction
         /\ task[t].pc = task[u].pc
         /\ task[t].chk = task[u].chk
         /\ task[t].i = task[u].i
         /\ task[t].prefix = task[u].prefix
         /\ Answers(task[t]) = Answers(task[u]) ) => task[t] = task[u]

\* a step of one dispatch changes nothing of the other, and the options and
\* the registry stay as they are
OneDispatchPerStep ==
    /\ commandOptions' = commandOptions
    /\ \A t, u \in TaskIds : (t # u /\ task'[t] # task[t]) => task'[u] = task[u]

\* C13: two dispatches run at once, of any two events or of the same event
\* twice, interleaved in any way at their awaits, each end as they would
\* alone: a step of one never changes the tokens, values or trace of the
\* other, so the outcome of a dispatch depends only on its event and on the
\* answers of its collaborators; and a dispatch whose check or converter
\* never answers does not keep the other from running to its end.
IndependentDispatches ==
    /\ []SameEventSameOutcome
    /\ [][OneDispatchPerStep]_vars
    /\ (task[1].pc # "idle") ~> (task[1].pc = "done")

\* both dispatches got "!ban u" from the owner; the second still waits for
\* its converter while the first has invoked the handler with the value
\* its own converter returned
IndependentDispatchesWitness ==
    /\ task[1].msg = task[2].msg
    /\ task[1].msg.content = Bang \o Join(<< W_ban, <<"u">> >>)
    /\ task[2].pc = "convert"
    /\ task[2].parsedArgs = <<>>
    /\ task[1].pc = "done"
    /\ task[1].parsedArgs = << Obj(1) >>
    /\ \E k \in Ops(task[1], "execute") : Tail(task[1].log[k].args) = << Obj(1) >>

====
